---- MODULE Spec2Model ----
(***************************************************************************)
(* Bookstore catalog service: the request handlers of main.py and the      *)
(* data-access methods of db/db.py over a PostgreSQL store.                *)
(*                                                                         *)
(* Every handler is a process that advances one awaited database statement *)
(* at a time, so handlers of concurrent requests interleave between        *)
(* statements.  The store is the committed content of the tables; a        *)
(* transaction (conn.transaction()) keeps its writes pending until its     *)
(* commit step and loses them when a statement fails.  Statements follow   *)
(* PostgreSQL's READ COMMITTED rules: a statement sees what is committed   *)
(* when it runs plus its own transaction's writes, and waits for the       *)
(* transaction that holds a conflicting row or unique-key lock.            *)
(***************************************************************************)
EXTENDS Integers, Sequences, FiniteSets, Bags, TLC

(***************************************************************************)
(* Bounds of the model.                                                    *)
(***************************************************************************)
MaxBookId == 2          \* ids the books sequence hands out: 1..MaxBookId
MaxRequests == 2        \* requests served in one behaviour of Spec

BookIds == 1..MaxBookId
AuthorIds == {1, 2}     \* ids the authors sequence hands out
CategoryIds == {1, 2}   \* ids the categories sequence hands out

(***************************************************************************)
(* Python's Optional[T]: None is the empty tuple, a value v is <<v>>.      *)
(***************************************************************************)
None == <<>>
Some(v) == <<v>>

\* Python truthiness of an Optional[int]: None and 0 are false.
TruthyInt(o) == o # None /\ o[1] # 0

\* Python truthiness of an Optional[List[int]]: None and [] are false.
TruthyList(o) == o # None /\ Len(o[1]) > 0

Range(s) == {s[k] : k \in 1..Len(s)}

VARIABLES
    authors,      \* table authors: the ids of its rows
    categories,   \* table categories: the ids of its rows
    books,        \* table books: id -> row, committed
    bc,           \* table book_categories: <<book_id, category_id>>, committed
    logs,         \* table logs: the entries written
    nextId,       \* the books id sequence (not transactional)
    fkCascade,    \* schema: book_categories.book_id REFERENCES books ON DELETE CASCADE, or no constraint
    pc,           \* per handler: the statement it is about to await
    req,          \* per handler: the request
    loc,          \* per handler: local variables
    tx,           \* per handler: the pending writes of its open transaction
    resp,         \* per handler: the response
    wr,           \* per handler: write statements issued by the current call
    quota,        \* requests the behaviour still admits
    held          \* per handler: pooled connections it holds

\* the request handlers in flight: each specification fixes its own set
Clients == DOMAIN pc

vars == <<authors, categories, books, bc, logs, nextId, fkCascade, pc, req, loc, tx, resp, wr, quota,
          held>>
store == <<authors, categories, books, bc, logs, nextId, fkCascade>>
others == <<authors, categories, logs, nextId, fkCascade>>

NoTx == [active |-> FALSE, kind |-> "none", wbook |-> None, ins |-> {}, del |-> {}]
NoLoc ==
    [i |-> 0, id |-> 0, row |-> None, b |-> FALSE, snap |-> {}, sql |-> None, rows |-> <<>>,
     cats |-> None]
NoResp == [status |-> 0, body |-> <<>>]
Idle == [op |-> "idle"]

\* BookIn / BookUpdateIn field values.
BookRow(book) ==
    [title |-> book.title, description |-> book.description, price |-> book.price,
     author_id |-> book.author_id, published_date |-> book.published_date]

\* BookOut: the row of get_book_by_id with its categories.
BookOut(id, row, cats) ==
    [id |-> id, title |-> row.title, description |-> row.description, price |-> row.price,
     author_id |-> row.author_id, published_date |-> row.published_date, categories |-> cats]

(***************************************************************************)
(* The store as a statement sees it.                                       *)
(***************************************************************************)
RowsOf(rel, id) == {r \in rel : r[1] = id}

\* The books row a statement of handler p sees: its own pending write first.
VisibleBook(p, id) ==
    IF tx[p].wbook # None /\ tx[p].wbook[1][1] = id THEN Some(tx[p].wbook[1][2])
    ELSE IF id \in DOMAIN books THEN Some(books[id])
    ELSE None

\* Variant of DropBook that empties the table.
DropEveryBook(id) == [k \in {} |-> books[k]]

PutBook(id, row) == [k \in (DOMAIN books) \cup {id} |-> IF k = id THEN row ELSE books[k]]
DropBook(id) == [k \in (DOMAIN books) \ {id} |-> books[k]]

(***************************************************************************)
(* Locks: what a statement waits for.                                      *)
(***************************************************************************)
\* q's uncommitted UPDATE of books row id holds the row's lock.
HoldsRowLock(q, id) ==
    /\ tx[q].active /\ tx[q].kind = "upd"
    /\ tx[q].wbook # None /\ tx[q].wbook[1][1] = id

\* With the foreign key, q's uncommitted association rows hold a key-share lock on
\* the books row, and its uncommitted deletes hold the association rows.
HoldsKeyShare(q, id) ==
    /\ fkCascade /\ tx[q].active
    /\ (RowsOf(tx[q].ins, id) # {} \/ RowsOf(tx[q].del, id) # {})

InsertBlockers(p, key) ==
    IF key \in tx[p].ins THEN {}
    ELSE {q \in Clients \ {p} : tx[q].active /\ (key \in tx[q].ins \/ key \in tx[q].del)}

\* Variant that attaches the categories to book 1 whatever id was returned.
AttachToFirstBook(book_id, cid) == <<1, cid>>

\* book_id = row['id']: the association row of the returned id and cid
AttachKey(book_id, cid) == <<book_id, cid>>

Blockers(p) ==
    CASE pc[p] = "ub_update" -> {q \in Clients \ {p} : HoldsRowLock(q, req[p].book_id)}
      [] pc[p] = "cb_attach" ->
            InsertBlockers(p, AttachKey(loc[p].id, req[p].book.category_ids[loc[p].i]))
      [] pc[p] = "ub_attach" ->
            InsertBlockers(p, <<req[p].book_id, req[p].patch.category_ids[1][loc[p].i]>>)
      [] pc[p] = "ub_delete_wait" ->
            {q \in Clients \ {p} : tx[q].active /\ tx[q].del \cap loc[p].snap # {}}
      [] pc[p] = "del_exec" ->
            {q \in Clients \ {p} : HoldsRowLock(q, req[p].book_id) \/ HoldsKeyShare(q, req[p].book_id)}
      [] OTHER -> {}

RECURSIVE WaitsOn(_, _, _)
\* The handlers p waits for, directly or through others, in at most n steps.
WaitsOn(p, n, seen) ==
    IF n = 0 THEN seen
    ELSE LET more == UNION {Blockers(q) : q \in seen \cup {p}}
         IN  IF more \subseteq seen THEN seen ELSE WaitsOn(p, n - 1, seen \cup more)

InDeadlock(p) == p \in WaitsOn(p, Cardinality(Clients), {})

(***************************************************************************)
(* The connection pool: asyncpg.create_pool(dsn, min_size=1, max_size=10)  *)
(* and Database.acquire.                                                   *)
(***************************************************************************)
max_size == 10

\* the connections the handlers hold between them
InUse == BagCardinality([p \in {q \in Clients : held[q] > 0} |-> held[p]])

\* self._pool.acquire() returns at once only while a connection is free;
\* otherwise the caller waits for a release
PoolFree == InUse < max_size

\* A statement that runs under `async with self.acquire() as conn` and leaves p
\* inside that scope; entering: the statement is the first of the scope, which
\* takes the connection.
Acquire(p, entering) ==
    /\ entering => PoolFree
    /\ held' = [held EXCEPT ![p] = IF entering THEN @ + 1 ELSE @]

\* Variant whose scope exit keeps the connection.
ReleaseNever(p, entering) == Acquire(p, entering)

\* Variant that gives the connection back only from a scope of one statement.
ReleaseSingleStatement(p, entering) ==
    /\ entering => PoolFree
    /\ UNCHANGED held

\* A statement after which p leaves the `async with self.acquire()` scope, by
\* return or by exception: the connection goes back to the pool.
Release(p, entering) ==
    /\ entering => PoolFree
    /\ held' = [held EXCEPT ![p] = IF entering THEN @ ELSE @ - 1]

(***************************************************************************)
(* Handler bookkeeping.                                                    *)
(***************************************************************************)
\* The handler returns (or raises): the response is determined.
Respond(p, status, body) ==
    /\ pc' = [pc EXCEPT ![p] = "done"]
    /\ resp' = [resp EXCEPT ![p] = [status |-> status, body |-> body]]

\* COMMIT: the pending writes of p become the committed tables.
CommitBooks(p) ==
    IF tx[p].wbook = None THEN books
    ELSE PutBook(tx[p].wbook[1][1], tx[p].wbook[1][2])

CommitBc(p) == (bc \ tx[p].del) \cup tx[p].ins

\* Variant without conn.transaction(): the statements that ran before the
\* failing one stay in the tables.
RollbackKeepsWrites(p) ==
    /\ tx' = [tx EXCEPT ![p] = NoTx]
    /\ Release(p, ~tx[p].active)
    /\ books' = CommitBooks(p)
    /\ bc' = CommitBc(p)
    /\ Respond(p, 500, <<>>)

\* A statement raised inside conn.transaction(): the transaction rolls back and
\* the exception leaves the handler as a server error.
Rollback(p) ==
    /\ tx' = [tx EXCEPT ![p] = NoTx]
    /\ Release(p, ~tx[p].active)
    /\ UNCHANGED <<books, bc>>
    /\ Respond(p, 500, <<>>)

\* A request arrives at a handler slot that is free (at rest, or done with the
\* request before): the handler runs up to its first awaited statement.
Begin(p, request, first, id) ==
    /\ pc[p] \in {"idle", "done"}
    /\ quota > 0
    /\ quota' = quota - 1
    /\ req' = [req EXCEPT ![p] = request]
    /\ pc' = [pc EXCEPT ![p] = first]
    /\ loc' = [loc EXCEPT ![p] = [NoLoc EXCEPT !.i = 1, !.id = id]]
    /\ resp' = [resp EXCEPT ![p] = NoResp]
    /\ wr' = [wr EXCEPT ![p] = 0]
    /\ UNCHANGED <<store, tx, held>>

(***************************************************************************)
(* Transactions: conn.transaction() of create_book and update_book.        *)
(***************************************************************************)
\* A DELETE that waits for a row lock skips the rows its lock holder deleted.
SnapsWithout(p, gone) ==
    [q \in Clients |-> IF q # p /\ pc[q] = "ub_delete_wait"
                     THEN [loc[q] EXCEPT !.snap = @ \ gone] ELSE loc[q]]

\* INSERT INTO book_categories(book_id, category_id): the composite key, the
\* category foreign key and (when the schema has it) the book foreign key.
InsertViolates(p, key) ==
    \/ key \in tx[p].ins
    \/ (key \in bc /\ key \notin tx[p].del)
    \/ key[2] \notin categories
    \/ (fkCascade /\ VisibleBook(p, key[1]) = None)

(***************************************************************************)
(* POST /authors/, POST /categories/: one INSERT each.                     *)
(***************************************************************************)
create_author ==
    /\ Cardinality(authors) + 1 \in AuthorIds
    /\ quota > 0
    /\ PoolFree
    /\ quota' = quota - 1
    /\ authors' = authors \cup {Cardinality(authors) + 1}
    /\ UNCHANGED <<categories, books, bc, logs, nextId, fkCascade, pc, req, loc, tx, resp, wr, held>>

create_category ==
    /\ Cardinality(categories) + 1 \in CategoryIds
    /\ quota > 0
    /\ PoolFree
    /\ quota' = quota - 1
    /\ categories' = categories \cup {Cardinality(categories) + 1}
    /\ UNCHANGED <<authors, books, bc, logs, nextId, fkCascade, pc, req, loc, tx, resp, wr, held>>

(***************************************************************************)
(* Database.get_book_by_id: two SELECTs on one connection, no transaction. *)
(***************************************************************************)
\* SELECT ... FROM books b JOIN authors a ON b.author_id = a.id WHERE b.id=$1
SelectBookJoinAuthor(id) ==
    IF id \in DOMAIN books /\ books[id].author_id \in authors THEN Some(books[id]) ELSE None

\* SELECT c.id FROM categories c JOIN book_categories bc ... WHERE bc.book_id=$1
SelectCategoriesOf(id) == {c \in categories : <<id, c>> \in bc}

\* What the handler makes of get_book_by_id returning None: GET answers 404;
\* POST and PUT return None, which is no BookOut, a server error.
AbsentStatus(op) == IF op = "get_book" THEN 404 ELSE 500

get_book_by_id_row(p) ==
    /\ pc[p] = "gb_row"
    /\ LET row == SelectBookJoinAuthor(loc[p].id) IN
       IF row = None
       THEN /\ Respond(p, AbsentStatus(req[p].op), <<>>)
            /\ Release(p, TRUE)
            /\ UNCHANGED loc
       ELSE /\ loc' = [loc EXCEPT ![p].row = row]
            /\ pc' = [pc EXCEPT ![p] = "gb_cats"]
            /\ Acquire(p, TRUE)
            /\ UNCHANGED resp
    /\ UNCHANGED <<store, req, tx, wr, quota>>

get_book_by_id_cats(p) ==
    /\ pc[p] = "gb_cats"
    /\ Release(p, FALSE)
    /\ Respond(p, 200, <<BookOut(loc[p].id, loc[p].row[1], SelectCategoriesOf(loc[p].id))>>)
    /\ UNCHANGED <<store, req, loc, tx, wr, quota>>

\* GET /books/{book_id}
get_book(p, id) == Begin(p, [op |-> "get_book", book_id |-> id], "gb_row", id)

(***************************************************************************)
(* POST /books/: main.create_book and Database.create_book.                *)
(***************************************************************************)
\* ids still to be drawn by the create calls in flight stay within MaxBookId
CanAllocate ==
    nextId + Cardinality({q \in Clients : pc[q] \in {"cb_author", "cb_cats", "cb_insert"}}) <= MaxBookId

create_book(p, book) ==
    /\ CanAllocate
    /\ Begin(p, [op |-> "create_book", book |-> book], "cb_author", 0)

\* if not await db.get_author_by_id(book.author_id)
AuthorExists(author_id) == author_id \in authors

\* Variant without the category look-up of the handlers.
CategoryUnchecked(cid) == TRUE

\* if not await db.get_category_by_id(cid)
CategoryExists(cid) == cid \in categories

create_book_check_author(p) ==
    /\ pc[p] = "cb_author"
    /\ Release(p, TRUE)
    /\ IF ~AuthorExists(req[p].book.author_id)
       THEN /\ Respond(p, 400, <<>>)
            /\ UNCHANGED loc
       ELSE /\ pc' = [pc EXCEPT ![p] =
                        IF Len(req[p].book.category_ids) = 0 THEN "cb_insert" ELSE "cb_cats"]
            /\ loc' = [loc EXCEPT ![p].i = 1]
            /\ UNCHANGED resp
    /\ UNCHANGED <<store, req, tx, wr, quota>>

create_book_check_category(p) ==
    /\ pc[p] = "cb_cats"
    /\ Release(p, TRUE)
    /\ LET cids == req[p].book.category_ids IN
       IF ~CategoryExists(cids[loc[p].i])
       THEN /\ Respond(p, 400, <<>>)
            /\ UNCHANGED loc
       ELSE /\ pc' = [pc EXCEPT ![p] = IF loc[p].i = Len(cids) THEN "cb_insert" ELSE "cb_cats"]
            /\ loc' = [loc EXCEPT ![p].i = IF loc[p].i = Len(cids) THEN 1 ELSE @ + 1]
            /\ UNCHANGED resp
    /\ UNCHANGED <<store, req, tx, wr, quota>>

\* BEGIN; INSERT INTO books(...) RETURNING id, ...
db_create_book_insert(p) ==
    /\ pc[p] = "cb_insert"
    /\ nextId' = nextId + 1
    /\ wr' = [wr EXCEPT ![p] = @ + 1]
    /\ IF req[p].book.author_id \notin authors
       THEN /\ Rollback(p)
            /\ UNCHANGED loc
       ELSE /\ Acquire(p, TRUE)
            /\ tx' = [tx EXCEPT ![p] = [active |-> TRUE, kind |-> "ins",
                         wbook |-> Some(<<nextId, BookRow(req[p].book)>>), ins |-> {}, del |-> {}]]
            /\ loc' = [loc EXCEPT ![p].id = nextId, ![p].i = 1]
            /\ pc' = [pc EXCEPT ![p] =
                        IF Len(req[p].book.category_ids) = 0 THEN "cb_commit" ELSE "cb_attach"]
            /\ UNCHANGED <<resp, books, bc>>
    /\ UNCHANGED <<authors, categories, logs, fkCascade, req, quota>>

\* for cid in category_ids: INSERT INTO book_categories(book_id, category_id)
db_create_book_attach(p) ==
    /\ pc[p] = "cb_attach"
    /\ Blockers(p) = {}
    /\ wr' = [wr EXCEPT ![p] = @ + 1]
    /\ LET cids == req[p].book.category_ids
           key == AttachKey(loc[p].id, cids[loc[p].i]) IN
       IF InsertViolates(p, key)
       THEN /\ Rollback(p)
            /\ UNCHANGED loc
       ELSE /\ Acquire(p, FALSE)
            /\ tx' = [tx EXCEPT ![p].ins = @ \cup {key}]
            /\ pc' = [pc EXCEPT ![p] = IF loc[p].i = Len(cids) THEN "cb_commit" ELSE "cb_attach"]
            /\ loc' = [loc EXCEPT ![p].i = @ + 1]
            /\ UNCHANGED <<resp, books, bc>>
    /\ UNCHANGED <<others, req, quota>>

\* leaving conn.transaction(): COMMIT; then main.create_book re-reads the book
db_create_book_commit(p) ==
    /\ pc[p] = "cb_commit"
    /\ Release(p, FALSE)
    /\ books' = CommitBooks(p)
    /\ bc' = CommitBc(p)
    /\ tx' = [tx EXCEPT ![p] = NoTx]
    /\ loc' = SnapsWithout(p, tx[p].del)
    /\ pc' = [pc EXCEPT ![p] = "gb_row"]
    /\ UNCHANGED <<authors, categories, logs, nextId, fkCascade, req, resp, wr, quota>>

(***************************************************************************)
(* PUT /books/{book_id}: main.update_book and Database.update_book.        *)
(***************************************************************************)
\* if book_update.author_id and not await db.get_author_by_id(...)
ChecksAuthor(patch) == TruthyInt(patch.author_id)

\* if book_update.category_ids: for cid in ...: get_category_by_id(cid)
ChecksCategories(patch) == TruthyList(patch.category_ids)

\* up_fields: the columns whose argument is not None
SetPart(patch) ==
    {f \in {"title", "description", "price", "author_id", "published_date"} : patch[f] # None}

\* UPDATE books SET <up_fields> WHERE id=$n, applied to one row
ApplyPatch(row, patch) ==
    [f \in DOMAIN row |-> IF f \in SetPart(patch) THEN patch[f][1] ELSE row[f]]

\* Variant that takes an empty list for an omitted one.
ReplacesWhenTruthy(patch) == TruthyList(patch.category_ids)

\* if category_ids is not None
ReplacesCategories(patch) == patch.category_ids # None

\* the first statement Database.update_book awaits
UpdateEntry(patch) ==
    IF SetPart(patch) # {} THEN "ub_update"
    ELSE IF ReplacesCategories(patch) THEN "ub_delete"
    ELSE "ub_select"

AfterUpdate(patch) == IF ReplacesCategories(patch) THEN "ub_delete" ELSE "ub_select"
AfterDelete(patch) == IF Len(patch.category_ids[1]) = 0 THEN "ub_select" ELSE "ub_attach"

update_book(p, id, patch) ==
    Begin(p, [op |-> "update_book", book_id |-> id, patch |-> patch],
          IF ChecksAuthor(patch) THEN "ub_author"
          ELSE IF ChecksCategories(patch) THEN "ub_cats"
          ELSE UpdateEntry(patch), 0)

update_book_check_author(p) ==
    /\ pc[p] = "ub_author"
    /\ Release(p, TRUE)
    /\ IF ~AuthorExists(req[p].patch.author_id[1])
       THEN Respond(p, 400, <<>>)
       ELSE /\ pc' = [pc EXCEPT ![p] =
                        IF ChecksCategories(req[p].patch) THEN "ub_cats"
                        ELSE UpdateEntry(req[p].patch)]
            /\ UNCHANGED resp
    /\ UNCHANGED <<store, req, loc, tx, wr, quota>>

update_book_check_category(p) ==
    /\ pc[p] = "ub_cats"
    /\ Release(p, TRUE)
    /\ LET cids == req[p].patch.category_ids[1] IN
       IF ~CategoryExists(cids[loc[p].i])
       THEN /\ Respond(p, 400, <<>>)
            /\ UNCHANGED loc
       ELSE /\ pc' = [pc EXCEPT ![p] =
                        IF loc[p].i = Len(cids) THEN UpdateEntry(req[p].patch) ELSE "ub_cats"]
            /\ loc' = [loc EXCEPT ![p].i = IF loc[p].i = Len(cids) THEN 1 ELSE @ + 1]
            /\ UNCHANGED resp
    /\ UNCHANGED <<store, req, tx, wr, quota>>

\* BEGIN; UPDATE books SET ... WHERE id=$n (waits for the row's lock; the
\* author foreign key is checked on the row it changes)
db_update_book_update(p) ==
    /\ pc[p] = "ub_update"
    /\ Blockers(p) = {}
    /\ wr' = [wr EXCEPT ![p] = @ + 1]
    /\ LET id == req[p].book_id
           patch == req[p].patch IN
       IF id \in DOMAIN books /\ patch.author_id # None /\ patch.author_id[1] \notin authors
       THEN Rollback(p)
       ELSE /\ Acquire(p, ~tx[p].active)
            /\ tx' = [tx EXCEPT ![p] = [active |-> TRUE, kind |-> "upd",
                         wbook |-> IF id \in DOMAIN books
                                   THEN Some(<<id, ApplyPatch(books[id], patch)>>) ELSE None,
                         ins |-> {}, del |-> {}]]
            /\ pc' = [pc EXCEPT ![p] = AfterUpdate(patch)]
            /\ UNCHANGED <<resp, books, bc>>
    /\ UNCHANGED <<others, req, loc, quota>>

\* DELETE FROM book_categories WHERE book_id=$1: the rows committed when the
\* statement starts; it waits when another transaction has deleted one of them
db_update_book_delete(p) ==
    /\ pc[p] = "ub_delete"
    /\ Acquire(p, ~tx[p].active)
    /\ wr' = [wr EXCEPT ![p] = @ + 1]
    /\ LET rows == RowsOf(bc, req[p].book_id) IN
       IF \E q \in Clients \ {p} : tx[q].active /\ tx[q].del \cap rows # {}
       THEN /\ loc' = [loc EXCEPT ![p].snap = rows]
            /\ tx' = [tx EXCEPT ![p].active = TRUE, ![p].kind = "upd"]
            /\ pc' = [pc EXCEPT ![p] = "ub_delete_wait"]
       ELSE /\ loc' = [loc EXCEPT ![p].i = 1]
            /\ tx' = [tx EXCEPT ![p].active = TRUE, ![p].kind = "upd", ![p].del = rows]
            /\ pc' = [pc EXCEPT ![p] = AfterDelete(req[p].patch)]
    /\ UNCHANGED <<store, req, resp, quota>>

\* the waiting DELETE goes on: of its rows it deletes those still there
db_update_book_delete_resume(p) ==
    /\ pc[p] = "ub_delete_wait"
    /\ Blockers(p) = {}
    /\ Acquire(p, FALSE)
    /\ tx' = [tx EXCEPT ![p].del = loc[p].snap \cap bc]
    /\ loc' = [loc EXCEPT ![p].snap = {}, ![p].i = 1]
    /\ pc' = [pc EXCEPT ![p] = AfterDelete(req[p].patch)]
    /\ UNCHANGED <<store, req, resp, wr, quota>>

\* for cid in category_ids: INSERT INTO book_categories(book_id, category_id)
db_update_book_attach(p) ==
    /\ pc[p] = "ub_attach"
    /\ Blockers(p) = {}
    /\ wr' = [wr EXCEPT ![p] = @ + 1]
    /\ LET cids == req[p].patch.category_ids[1]
           key == <<req[p].book_id, cids[loc[p].i]>> IN
       IF InsertViolates(p, key)
       THEN /\ Rollback(p)
            /\ UNCHANGED loc
       ELSE /\ Acquire(p, FALSE)
            /\ tx' = [tx EXCEPT ![p].ins = @ \cup {key}]
            /\ pc' = [pc EXCEPT ![p] = IF loc[p].i = Len(cids) THEN "ub_select" ELSE "ub_attach"]
            /\ loc' = [loc EXCEPT ![p].i = @ + 1]
            /\ UNCHANGED <<resp, books, bc>>
    /\ UNCHANGED <<others, req, quota>>

\* row = SELECT * FROM books WHERE id=$1
db_update_book_select(p) ==
    /\ pc[p] = "ub_select"
    /\ Acquire(p, ~tx[p].active)
    /\ loc' = [loc EXCEPT ![p].b = VisibleBook(p, req[p].book_id) # None]
    /\ tx' = [tx EXCEPT ![p].active = TRUE, ![p].kind = "upd"]
    /\ pc' = [pc EXCEPT ![p] = "ub_commit"]
    /\ UNCHANGED <<store, req, resp, wr, quota>>

\* return inside conn.transaction(): COMMIT; then main.update_book answers
\* 404 when the row is None and re-reads the book otherwise
db_update_book_commit(p) ==
    /\ pc[p] = "ub_commit"
    /\ Release(p, FALSE)
    /\ books' = CommitBooks(p)
    /\ bc' = CommitBc(p)
    /\ tx' = [tx EXCEPT ![p] = NoTx]
    /\ IF ~loc[p].b
       THEN /\ Respond(p, 404, <<>>)
            /\ loc' = SnapsWithout(p, tx[p].del)
       ELSE /\ pc' = [pc EXCEPT ![p] = "gb_row"]
            /\ loc' = [SnapsWithout(p, tx[p].del) EXCEPT ![p].id = req[p].book_id]
            /\ UNCHANGED resp
    /\ UNCHANGED <<authors, categories, logs, nextId, fkCascade, req, wr, quota>>

\* PostgreSQL ends a lock cycle by failing one of its waiting statements
deadlock_detected(p) ==
    /\ pc[p] \in {"ub_update", "ub_attach", "cb_attach", "ub_delete_wait"}
    /\ InDeadlock(p)
    /\ Rollback(p)
    /\ UNCHANGED <<others, req, loc, wr, quota>>

(***************************************************************************)
(* DELETE /books/{book_id}: main.delete_book and Database.delete_book.     *)
(***************************************************************************)
\* Variant that reports deleted whatever the status says.
DeleteAlwaysReported(count) == TRUE

\* return result[-1] != '0' on the status "DELETE <count>"
DeleteReported(count) == (count % 10) # 0

delete_book(p, id) == Begin(p, [op |-> "delete_book", book_id |-> id], "del_exec", 0)

\* DELETE FROM books WHERE id=$1 (autocommit; with the foreign key the
\* association rows of the book go with it)
db_delete_book(p) ==
    /\ pc[p] = "del_exec"
    /\ Release(p, TRUE)
    /\ Blockers(p) = {}
    /\ wr' = [wr EXCEPT ![p] = @ + 1]
    /\ LET id == req[p].book_id
           count == IF id \in DOMAIN books THEN 1 ELSE 0
           gone == IF count = 1 /\ fkCascade THEN RowsOf(bc, id) ELSE {} IN
       /\ books' = IF count = 1 THEN DropBook(id) ELSE books
       /\ bc' = bc \ gone
       /\ loc' = [SnapsWithout(p, gone) EXCEPT ![p].b = (count = 1)]
       /\ Respond(p, IF DeleteReported(count) THEN 200 ELSE 404, <<>>)
    /\ UNCHANGED <<authors, categories, logs, nextId, fkCascade, req, tx, quota>>

(***************************************************************************)
(* GET /books/: main.list_books, Database.list_books, Database.log_action. *)
(***************************************************************************)
DigitStr == <<"0", "1", "2", "3", "4", "5", "6", "7", "8", "9">>

RECURSIVE Str(_)
\* str(n) of a natural number, as an f-string formats it
Str(n) == IF n < 10 THEN DigitStr[n + 1] ELSE Str(n \div 10) \o DigitStr[(n % 10) + 1]

RECURSIVE Join(_, _)
\* sep.join(parts)
Join(parts, sep) ==
    IF Len(parts) = 0 THEN ""
    ELSE IF Len(parts) = 1 THEN parts[1]
    ELSE parts[1] \o sep \o Join(Tail(parts), sep)

\* if search: a phrase is a sequence of tokens, "" the empty one
TruthySearch(o) == o # None /\ Len(o[1]) > 0

\* ORDER BY b.title LIMIT {limit} OFFSET {offset}
OrderLimitClause(limit, offset) ==
    "ORDER BY b.title LIMIT " \o Str(limit) \o " OFFSET " \o Str(offset)

\* The query text and the bound parameters list_books builds from its filters.
BuildQuery(q) ==
    LET hasA == q.author_id # None
        hasC == q.category_id # None
        hasS == TruthySearch(q.search)
        idxC == IF hasA THEN 2 ELSE 1
        idxS == idxC + (IF hasC THEN 1 ELSE 0)
        base == <<"SELECT b.id, b.title, b.description, b.price, b.author_id, b.published_date, a.name as author_name FROM books b JOIN authors a ON b.author_id = a.id">>
        joins == IF hasC THEN <<"JOIN book_categories bc ON b.id = bc.book_id">> ELSE <<>>
        wheres == (IF hasA THEN <<"b.author_id=$" \o Str(1)>> ELSE <<>>)
               \o (IF hasC THEN <<"bc.category_id=$" \o Str(idxC)>> ELSE <<>>)
               \o (IF hasS THEN <<"to_tsvector('english', b.title || ' ' || b.description) @@ plainto_tsquery('english', $" \o Str(idxS) \o ")">> ELSE <<>>)
        params == (IF hasA THEN <<[arg |-> "author_id", val |-> q.author_id]>> ELSE <<>>)
               \o (IF hasC THEN <<[arg |-> "category_id", val |-> q.category_id]>> ELSE <<>>)
               \o (IF hasS THEN <<[arg |-> "search", val |-> q.search]>> ELSE <<>>)
        where == IF Len(wheres) > 0 THEN <<"WHERE " \o Join(wheres, " AND ")>> ELSE <<>>
        query == base \o joins \o where \o <<OrderLimitClause(q.limit, q.offset)>>
    IN  [text |-> Join(query, " "), params |-> params]

\* to_tsvector(title || ' ' || description) @@ plainto_tsquery(phrase): every
\* token of the phrase occurs in the title or the description
Matches(phrase, row) == Range(phrase) \subseteq {row.title, row.description}

\* Variant that joins the filters with OR.
SelectedEither(q) ==
    {id \in DOMAIN books :
        /\ books[id].author_id \in authors
        /\ \/ q.author_id # None /\ books[id].author_id = q.author_id[1]
           \/ q.category_id # None /\ <<id, q.category_id[1]>> \in bc
           \/ TruthySearch(q.search) /\ Matches(q.search[1], books[id])
           \/ q.author_id = None /\ q.category_id = None /\ ~TruthySearch(q.search)}

\* The ids of the books the WHERE clause and the joins keep.
Selected(q) ==
    {id \in DOMAIN books :
        /\ books[id].author_id \in authors
        /\ q.author_id # None => books[id].author_id = q.author_id[1]
        /\ q.category_id # None => <<id, q.category_id[1]>> \in bc
        /\ TruthySearch(q.search) => Matches(q.search[1], books[id])}

\* ORDER BY b.title: every order of the ids that is ascending in the title
OrderedByTitle(ids) ==
    {s \in [1..Cardinality(ids) -> ids] :
        /\ \A i, j \in DOMAIN s : i < j => s[i] # s[j]
        /\ \A i, j \in DOMAIN s : i < j => books[s[i]].title <= books[s[j]].title}

\* LIMIT limit OFFSET offset
Page(s, limit, offset) ==
    IF offset >= Len(s) THEN <<>>
    ELSE SubSeq(s, offset + 1, IF offset + limit < Len(s) THEN offset + limit ELSE Len(s))

list_books(p, q) == Begin(p, [op |-> "list_books", q |-> q], "lb_rows", 0)

\* what main.list_books returns once db.list_books has: the books, with the log
\* write handed to background_tasks
ListResponse(body) == [status |-> 200, body |-> body]

\* rows = await conn.fetch(sql, *params); without rows no second query is made
db_list_books_rows(p) ==
    /\ pc[p] = "lb_rows"
    /\ \E s \in OrderedByTitle(Selected(req[p].q)) :
         LET ids == Page(s, req[p].q.limit, req[p].q.offset) IN
         /\ loc' = [loc EXCEPT ![p].sql = Some(BuildQuery(req[p].q)),
                               ![p].rows = [k \in DOMAIN ids |-> <<ids[k], books[ids[k]]>>]]
         /\ IF Len(ids) = 0
            THEN /\ resp' = [resp EXCEPT ![p] = ListResponse(<<>>)]
                 /\ pc' = [pc EXCEPT ![p] = "lb_log"]
                 /\ Release(p, TRUE)
            ELSE /\ pc' = [pc EXCEPT ![p] = "lb_cats"]
                 /\ Acquire(p, TRUE)
                 /\ UNCHANGED resp
    /\ UNCHANGED <<store, req, tx, wr, quota>>

\* Variant that returns one category, the least, for each book.
SelectOneCategoryOfAny(book_ids) ==
    {r \in bc : /\ r[1] \in book_ids /\ r[2] \in categories
                /\ \A s \in RowsOf(bc, r[1]) : r[2] <= s[2]}

\* SELECT bc.book_id, c.id, c.name FROM book_categories bc JOIN categories c ...
\* WHERE bc.book_id = ANY($1::int[])
SelectCategoriesOfAny(book_ids) == {r \in bc : r[1] \in book_ids /\ r[2] \in categories}

\* d.get(book_id, []) of the rows grouped by book_id
CategoriesFrom(cats, book_id) == {r[2] : r \in RowsOf(cats, book_id)}

\* if book_ids: the batched category query, merged into the rows
db_list_books_cats(p) ==
    /\ pc[p] = "lb_cats"
    /\ Release(p, FALSE)
    /\ LET book_ids == {loc[p].rows[k][1] : k \in DOMAIN loc[p].rows}
           cats == SelectCategoriesOfAny(book_ids) IN
       /\ loc' = [loc EXCEPT ![p].cats = Some(cats)]
       /\ resp' = [resp EXCEPT ![p] = ListResponse(
                     [k \in DOMAIN loc[p].rows |->
                         BookOut(loc[p].rows[k][1], loc[p].rows[k][2],
                                 CategoriesFrom(cats, loc[p].rows[k][1]))])]
    /\ pc' = [pc EXCEPT ![p] = "lb_log"]
    /\ UNCHANGED <<store, req, tx, wr, quota>>

\* Variant that surfaces a failed log write as a server error.
AfterLogSurfaced(r, ok) == IF ok THEN r ELSE [status |-> 500, body |-> <<>>]

\* the response of list_books once the background log write has ended
AfterLog(r, ok) == r

\* background task: INSERT INTO logs(user_id, action, details); it may fail
\* (unknown user_id, storage outage) after the response was determined
log_action(p) ==
    /\ pc[p] = "lb_log"
    /\ Release(p, TRUE)
    /\ \E ok \in BOOLEAN :
         /\ logs' = IF ok THEN logs \cup {[user_id |-> req[p].q.user_id, action |-> "search_books"]}
                    ELSE logs
         /\ loc' = [loc EXCEPT ![p].b = ok]
         /\ resp' = [resp EXCEPT ![p] = AfterLog(resp[p], ok)]
    /\ pc' = [pc EXCEPT ![p] = "done"]
    /\ UNCHANGED <<authors, categories, books, bc, nextId, fkCascade, req, tx, wr, quota>>

(***************************************************************************)
(* Requests.                                                               *)
(***************************************************************************)
NewBook(t, a, cids) ==
    [title |-> t, description |-> 1, price |-> 1, author_id |-> a, published_date |-> 1,
     category_ids |-> cids]

Patch(t, a, cids) ==
    [title |-> t, description |-> None, price |-> None, author_id |-> a,
     published_date |-> None, category_ids |-> cids]

ListQuery(a, c, s, limit, offset) ==
    [author_id |-> a, category_id |-> c, search |-> s, limit |-> limit, offset |-> offset,
     user_id |-> None]

(***************************************************************************)
(* Specifications.                                                         *)
(***************************************************************************)
\* The handlers cs at rest over a store the service reaches, n requests to come;
\* the schema is either of the two the data model allows.
InitWith(cs, as, cats, bs, assoc, n) ==
    /\ authors = as
    /\ categories = cats
    /\ books = bs
    /\ bc = assoc
    /\ logs = {}
    /\ nextId = Cardinality(DOMAIN bs) + 1
    /\ fkCascade \in BOOLEAN
    /\ pc = [p \in cs |-> "idle"]
    /\ req = [p \in cs |-> Idle]
    /\ loc = [p \in cs |-> NoLoc]
    /\ tx = [p \in cs |-> NoTx]
    /\ resp = [p \in cs |-> NoResp]
    /\ wr = [p \in cs |-> 0]
    /\ quota = n
    /\ held = [p \in cs |-> 0]

\* One awaited statement of a create_book call.
CreateStep(p) ==
    \/ create_book_check_author(p)
    \/ create_book_check_category(p)
    \/ db_create_book_insert(p)
    \/ db_create_book_attach(p)
    \/ db_create_book_commit(p)

\* One awaited statement of an update_book call.
UpdateStep(p) ==
    \/ update_book_check_author(p)
    \/ update_book_check_category(p)
    \/ db_update_book_update(p)
    \/ db_update_book_delete(p)
    \/ db_update_book_attach(p)
    \/ db_update_book_select(p)
    \/ db_update_book_commit(p)

\* One awaited statement of get_book_by_id.
ReadStep(p) ==
    \/ get_book_by_id_row(p)
    \/ get_book_by_id_cats(p)

\* The books table after POST /books/ of NewBook(1, 1, <<1>>) on an empty one.
OneBook == 1 :> BookRow(NewBook(1, 1, <<1>>))

(* Spec: two concurrent handlers.  The store starts empty with author 1 and   *)
(* category 1, or with both categories and book 1 in category 1.              *)
SpecClients == {1, 2}
SpecNewBooks == {NewBook(1, a, cids) : a \in AuthorIds, cids \in {<<1>>, <<1, 2>>, <<2, 2>>}}
SpecPatches ==
    {Patch(Some(2), None, None), Patch(None, Some(0), None), Patch(None, Some(2), None),
     Patch(None, None, Some(<<>>)), Patch(None, None, Some(<<2, 1>>)),
     Patch(Some(2), None, Some(<<1, 1>>))}

Init ==
    \/ InitWith(SpecClients, {1}, {1}, << >>, {}, MaxRequests)
    \/ InitWith(SpecClients, {1}, {1, 2}, OneBook, {<<1, 1>>}, MaxRequests)

Next ==
    \/ create_author
    \/ create_category
    \/ \E p \in SpecClients :
        \/ \E book \in SpecNewBooks : create_book(p, book)
        \/ \E id \in BookIds, patch \in SpecPatches : update_book(p, id, patch)
        \/ \E id \in BookIds : delete_book(p, id)
        \/ CreateStep(p)
        \/ UpdateStep(p)
        \/ db_update_book_delete_resume(p)
        \/ deadlock_detected(p)
        \/ db_delete_book(p)
        \/ ReadStep(p)

Spec == Init /\ [][Next]_vars

(* SpecSeq: one handler at a time, SeqRequests requests one after the other, *)
(* over authors {1} and categories {1, 2}.                                    *)
SeqRequests == 3
SeqClients == {1}
SeqNewBooks == {NewBook(t, 1, cids) : t \in {1, 2}, cids \in {<<>>, <<1>>, <<2, 1>>, <<1, 1>>}}
SeqPatches ==
    {Patch(None, None, None), Patch(Some(2), None, None), Patch(None, Some(1), None),
     Patch(None, None, Some(<<>>)), Patch(None, None, Some(<<2>>)),
     Patch(Some(2), None, Some(<<1, 2>>))}

InitSeq ==
    \/ InitWith(SeqClients, {1}, {1, 2}, << >>, {}, SeqRequests)
    \/ InitWith(SeqClients, {1}, {1, 2}, OneBook, {<<1, 1>>}, SeqRequests)

NextSeq ==
    \E p \in SeqClients :
        \/ \E book \in SeqNewBooks : create_book(p, book)
        \/ \E id \in BookIds, patch \in SeqPatches : update_book(p, id, patch)
        \/ \E id \in BookIds : delete_book(p, id)
        \/ \E id \in BookIds : get_book(p, id)
        \/ CreateStep(p)
        \/ UpdateStep(p)
        \/ db_delete_book(p)
        \/ ReadStep(p)

SpecSeq == InitSeq /\ [][NextSeq]_vars

(* SpecCreate: MaxBookId handlers, MaxBookId createBook calls in all, each    *)
(* with the KCats existing categories (in either order), on a store without   *)
(* books.                                                                     *)
KCats == 2
CreateClients == 1..MaxBookId
Ascending == [k \in 1..KCats |-> k]
Descending == [k \in 1..KCats |-> KCats + 1 - k]
CreateNewBooks == {NewBook(1, 1, cids) : cids \in {Ascending, Descending}}

InitCreate == InitWith(CreateClients, {1}, 1..KCats, << >>, {}, MaxBookId)

NextCreate ==
    \E p \in CreateClients :
        \/ \E book \in CreateNewBooks : create_book(p, book)
        \/ CreateStep(p)
        \/ ReadStep(p)

SpecCreate == InitCreate /\ [][NextCreate]_vars

(* SpecList: two handlers serving ListRequests list and getBook requests over *)
(* a store of two books (book 1 in both categories, book 2 in category 1), or *)
(* of those and a third book without categories; no request changes a book.   *)
ListRequests == 2
ListClients == {1, 2}
TwoBooks == (1 :> BookRow(NewBook(2, 1, <<1, 2>>))) @@ (2 :> BookRow(NewBook(1, 1, <<1>>)))
ListQueries ==
    {ListQuery(None, None, None, 1, 0), ListQuery(None, None, None, 2, 0),
     ListQuery(None, None, None, 2, 1), ListQuery(Some(1), None, None, 2, 0),
     ListQuery(None, Some(2), None, 2, 0), ListQuery(Some(1), Some(1), Some(<<1>>), 2, 0),
     ListQuery(None, None, Some(<<>>), 2, 0), ListQuery(Some(2), None, None, 1, 0),
     ListQuery(None, Some(1), Some(<<2>>), 2, 0), ListQuery(None, None, None, 1, 1)}

\* TwoBooks and a third book of author 2 without categories, titled as book 2.
ThreeBooks == TwoBooks @@ (3 :> BookRow(NewBook(1, 2, <<>>)))

InitList ==
    \/ InitWith(ListClients, {1}, {1, 2}, TwoBooks, {<<1, 1>>, <<1, 2>>, <<2, 1>>}, ListRequests)
    \/ InitWith(ListClients, {1, 2}, {1, 2}, ThreeBooks, {<<1, 1>>, <<1, 2>>, <<2, 1>>},
                ListRequests)

NextList ==
    \E p \in ListClients :
        \/ \E q \in ListQueries : list_books(p, q)
        \/ \E id \in DOMAIN ThreeBooks : get_book(p, id)
        \/ ReadStep(p)
        \/ db_list_books_rows(p)
        \/ db_list_books_cats(p)
        \/ log_action(p)

SpecList == InitList /\ [][NextList]_vars

(* SpecRace: two handlers, RaceRequests calls in all on book 1 (title 1,       *)
(* category 1): getBook, and updateBook replacing the categories, some the     *)
(* title too.                                                                  *)
RaceRequests == 2
RaceClients == {1, 2}
RacePatches ==
    {Patch(None, None, Some(<<1>>)), Patch(None, None, Some(<<2>>)),
     Patch(Some(2), None, Some(<<2>>)), Patch(None, Some(1), Some(<<1, 2>>))}

InitRace == InitWith(RaceClients, {1}, {1, 2}, OneBook, {<<1, 1>>}, RaceRequests)

NextRace ==
    \E p \in RaceClients :
        \/ \E patch \in RacePatches : update_book(p, 1, patch)
        \/ get_book(p, 1)
        \/ UpdateStep(p)
        \/ db_update_book_delete_resume(p)
        \/ ReadStep(p)

SpecRace == InitRace /\ [][NextRace]_vars

(* SpecPool: handler 0 sends updateBook calls on book 1, one of which fails    *)
(* inside its transaction (a repeated category id); each of the other          *)
(* handlers, Excess more of them than the pool has connections, sends one      *)
(* getBook(1), which keeps its connection between its two SELECTs.  The        *)
(* handlers that send getBook are alike, so of those at the same statement the *)
(* lowest-numbered one runs next.                                              *)
Excess == 1
Readers == 1 .. (max_size + Excess)
PoolClients == {0} \cup Readers
PoolPatches == {Patch(Some(1), Some(1), Some(<<1>>)), Patch(None, None, Some(<<1, 1>>))}

Turn(p) == \A q \in Readers : q < p => pc[q] # pc[p]

InitPool ==
    InitWith(PoolClients, {1}, {1}, OneBook, {<<1, 1>>}, max_size + Excess + 1)

NextPool ==
    \/ \E patch \in PoolPatches : update_book(0, 1, patch)
    \/ UpdateStep(0)
    \/ ReadStep(0)
    \/ \E p \in Readers :
          \/ Turn(p) /\ pc[p] = "idle" /\ get_book(p, 1)
          \/ Turn(p) /\ ReadStep(p)

SpecPool == InitPool /\ [][NextPool]_vars

(* SpecLive: SpecPool's getBook handlers next to a createBook and an           *)
(* updateBook of the book that createBook is inserting (id 2), with their      *)
(* category ids in opposite orders; every handler sends one request.  Weak     *)
(* fairness of the whole step: the event loop runs some ready handler and      *)
(* PostgreSQL some runnable statement.                                         *)
Creator == 0
Updater == max_size + Excess + 1
LiveClients == {Creator, Updater} \cup Readers
LivePatches == {Patch(None, Some(1), Some(<<2, 1>>))}
LiveNewBooks == {NewBook(2, 1, <<1, 2>>)}

InitLive ==
    InitWith(LiveClients, {1}, {1, 2}, OneBook, {<<1, 1>>}, max_size + Excess + 2)

NextLive ==
    \/ pc[Creator] = "idle" /\ \E book \in LiveNewBooks : create_book(Creator, book)
    \/ CreateStep(Creator)
    \/ pc[Updater] = "idle" /\ \E patch \in LivePatches : update_book(Updater, 2, patch)
    \/ UpdateStep(Updater)
    \/ \E p \in {Creator, Updater} : ReadStep(p) \/ deadlock_detected(p)
    \/ \E p \in Readers :
          \/ Turn(p) /\ pc[p] = "idle" /\ get_book(p, 1)
          \/ Turn(p) /\ ReadStep(p)

SpecLive == InitLive /\ [][NextLive]_vars /\ WF_vars(NextLive)

(***************************************************************************)
(* Properties.                                                             *)
(***************************************************************************)
\* The references of a create_book request resolve in the current store.
NewBookRefsExist(book) ==
    book.author_id \in authors /\ Range(book.category_ids) \subseteq categories

\* The references a patch supplies resolve in the current store.
PatchRefsExist(patch) ==
    /\ patch.author_id # None => patch.author_id[1] \in authors
    /\ patch.category_ids # None => Range(patch.category_ids[1]) \subseteq categories

\* Handler p took the step (a commit of another handler may touch loc[p].snap).
Acts(p) == pc'[p] # pc[p] \/ tx'[p] # tx[p]

(* C1: a createBook call whose author_id or one of whose category_ids does    *)
(* not exist is rejected (400) without having issued any write statement: no  *)
(* write statement of a createBook call is issued while one of its references *)
(* does not exist, and a call that ends with a reference still missing was    *)
(* rejected with no write and no open transaction.                            *)
C1_CreateRejectedBeforeWrite ==
    \A p \in Clients : req[p].op = "create_book" =>
        /\ wr[p] > 0 => NewBookRefsExist(req[p].book)
        /\ (pc[p] = "done" /\ ~NewBookRefsExist(req[p].book)) =>
               (resp[p].status = 400 /\ wr[p] = 0 /\ tx[p] = NoTx)

\* C1 witness: a call rejected for a missing category after its author passed.
C1_Witness ==
    \E p \in Clients :
        /\ req[p].op = "create_book" /\ pc[p] = "done" /\ resp[p].status = 400
        /\ req[p].book.author_id \in authors
        /\ ~(Range(req[p].book.category_ids) \subseteq categories)
        /\ wr[p] = 0

(* C2 as stated: an updateBook call that supplies an author_id or a           *)
(* category id that does not exist, 0 included, is rejected as an invalid     *)
(* reference (400) before any write statement is executed.                    *)
C2_UpdateRejectedBeforeWrite ==
    \A p \in Clients : req[p].op = "update_book" =>
        /\ wr[p] > 0 => PatchRefsExist(req[p].patch)
        /\ (pc[p] = "done" /\ ~PatchRefsExist(req[p].patch)) =>
               (resp[p].status = 400 /\ wr[p] = 0)

(* C5: the writes of createBook and updateBook are atomic.  A statement of a  *)
(* call's transaction, failing ones and the rollback included, leaves the     *)
(* committed books and book_categories as they are; the commit of createBook  *)
(* brings the book row together with every association row supplied, and the  *)
(* commit of an updateBook that supplies category_ids brings all of them.     *)
C5_AtomicWrites ==
    [][\A p \in Clients :
          /\ (Acts(p) /\ pc[p] \in {"cb_insert", "cb_attach", "ub_update", "ub_delete",
                                    "ub_delete_wait", "ub_attach", "ub_select"})
                => (books' = books /\ bc' = bc)
          /\ (Acts(p) /\ pc[p] = "cb_commit")
                => /\ loc[p].id \in DOMAIN books'
                   /\ \A c \in Range(req[p].book.category_ids) : <<loc[p].id, c>> \in bc'
          /\ (Acts(p) /\ pc[p] = "ub_commit" /\ req[p].patch.category_ids # None)
                => \A c \in Range(req[p].patch.category_ids[1]) : <<req[p].book_id, c>> \in bc'
      ]_vars

\* C5 witness: a createBook failed on its second association insert, after the
\* book row and one association row, and none of them is in the store.
C5_Witness ==
    \E p \in Clients :
        /\ req[p].op = "create_book" /\ pc[p] = "done" /\ resp[p].status = 500
        /\ wr[p] = 3
        /\ loc[p].id \notin DOMAIN books
        /\ RowsOf(bc, loc[p].id) = {}

(* C6 as stated: updateBook of an identifier that never referenced a book     *)
(* answers not-found (404) for every patch that passes validation, and leaves *)
(* no association row behind.                                                 *)
C6_UpdateAbsentIsNotFound ==
    \A p \in Clients :
        (/\ req[p].op = "update_book" /\ pc[p] = "done"
         /\ req[p].book_id >= nextId /\ resp[p].status # 400)
        => (resp[p].status = 404 /\ RowsOf(bc, req[p].book_id) = {})

(* C7: deleteBook reports deleted (200) exactly when the books row of that id *)
(* existed and this call removed it, and not-found (404) otherwise, never an  *)
(* error; of two deleteBook calls of one id at most one reports deleted.      *)
C7_DeleteReportsRemoval ==
    /\ [](\A p, q \in Clients :
            (/\ p # q /\ req[p].op = "delete_book" /\ req[q].op = "delete_book"
             /\ req[p].book_id = req[q].book_id /\ pc[p] = "done" /\ pc[q] = "done")
            => ~(resp[p].status = 200 /\ resp[q].status = 200))
    /\ [][\A p \in Clients : (pc[p] = "del_exec" /\ pc'[p] = "done") =>
            /\ resp'[p].status \in {200, 404}
            /\ resp'[p].status = 200 <=>
                  (req[p].book_id \in DOMAIN books /\ req[p].book_id \notin DOMAIN books')
            /\ req[p].book_id \notin DOMAIN books => (resp'[p].status = 404 /\ books' = books)
       ]_vars

\* C7 witness: a second deleteBook of an id, after one that reported deleted.
C7_Witness ==
    \E p, q \in Clients :
        /\ p # q /\ req[p].op = "delete_book" /\ req[q].op = "delete_book"
        /\ req[p].book_id = req[q].book_id /\ pc[p] = "done" /\ pc[q] = "done"
        /\ resp[p].status = 200 /\ resp[q].status = 404

\* No id occurs twice in the list.
Distinct(s) == \A i, j \in DOMAIN s : i # j => s[i] # s[j]

(* C3: a successful updateBook of a book leaves it with no association row    *)
(* when category_ids is the empty list, with the association rows it had      *)
(* when category_ids is omitted, and with exactly the rows of S when          *)
(* category_ids is the non-empty set S; the book it returns lists S.          *)
C3_CategoryReplacement ==
    /\ [](\A p \in Clients :
            (/\ req[p].op = "update_book" /\ pc[p] = "done" /\ resp[p].status = 200
             /\ req[p].patch.category_ids # None)
            => resp[p].body[1].categories = Range(req[p].patch.category_ids[1]))
    /\ [][\A p \in Clients : (pc[p] = "ub_commit" /\ pc'[p] = "gb_row") =>
            LET id == req[p].book_id
                cids == req[p].patch.category_ids IN
            /\ cids = None => RowsOf(bc', id) = RowsOf(bc, id)
            /\ cids # None => RowsOf(bc', id) = {<<id, c>> : c \in Range(cids[1])}
       ]_vars

\* C3 witness: book 1 had a category and an updateBook with [] has cleared it.
C3_Witness ==
    \E p \in Clients :
        /\ req[p].op = "update_book" /\ pc[p] = "done" /\ resp[p].status = 200
        /\ req[p].patch.category_ids = Some(<<>>)
        /\ req[p].book_id \in DOMAIN books
        /\ RowsOf(bc, req[p].book_id) = {}
        /\ resp[p].body[1].categories = {}

C8_ConcurrentCreates ==
    LET started == MaxBookId - quota
        inflight == Cardinality({p \in Clients :
                        pc[p] \in {"cb_author", "cb_cats", "cb_insert", "cb_attach", "cb_commit"}})
    IN  /\ Cardinality(DOMAIN books) = started - inflight
        /\ Cardinality(bc) = KCats * Cardinality(DOMAIN books)
        /\ \A id \in DOMAIN books : Cardinality(RowsOf(bc, id)) = KCats
        /\ \A p \in Clients : pc[p] = "done" => resp[p].status = 200
        /\ \A p, q \in Clients :
              (p # q /\ pc[p] = "done" /\ pc[q] = "done") => resp[p].body[1].id # resp[q].body[1].id

\* C8 witness: every handler has served one of the MaxBookId calls.
C8_Witness ==
    /\ quota = 0
    /\ \A p \in Clients : pc[p] = "done" /\ resp[p].status = 200
    /\ Cardinality(DOMAIN books) = MaxBookId
    /\ Cardinality(bc) = MaxBookId * KCats

(* C9: the audit-log write of a list request starts only once the response is *)
(* determined, the response is the same whether the write succeeds or fails,  *)
(* and nothing but that background write adds to the logs.                    *)
C9_LogAfterResponse ==
    /\ [](\A p \in Clients : pc[p] = "lb_log" => resp[p].status = 200)
    /\ [][\A p \in Clients :
            /\ (pc[p] = "lb_log" /\ pc'[p] = "done") => resp'[p] = resp[p]
            /\ (pc[p] # "lb_log" /\ pc'[p] = pc[p]) => resp'[p] = resp[p]
         ]_vars
    /\ [][logs' # logs => \E p \in Clients : pc[p] = "lb_log" /\ pc'[p] = "done"]_vars

\* C9 witness: a list request answered with its books although its log write failed.
C9_Witness ==
    \E p \in Clients :
        /\ req[p].op = "list_books" /\ pc[p] = "done" /\ ~loc[p].b
        /\ resp[p].status = 200 /\ Len(resp[p].body) > 0

\* Which filters of a list request take part in the query.
Presence(q) == <<q.author_id # None, q.category_id # None, TruthySearch(q.search)>>

(* C10 as stated: the query text of list_books depends only on which filters  *)
(* are present, and limit and offset reach the database as bound parameters.  *)
C10_TextByFiltersOnly ==
    /\ \A p, q \in Clients :
          (/\ loc[p].sql # None /\ loc[q].sql # None
           /\ Presence(req[p].q) = Presence(req[q].q))
          => loc[p].sql[1].text = loc[q].sql[1].text
    /\ \A p \in Clients : loc[p].sql # None =>
          {"limit", "offset"} \subseteq {x.arg : x \in Range(loc[p].sql[1].params)}

\* The books a list request asks for: every filter it supplies holds of them.
Wanted(q) ==
    {id \in DOMAIN books :
        /\ q.author_id # None => books[id].author_id = q.author_id[1]
        /\ q.category_id # None => \E r \in bc : r = <<id, q.category_id[1]>>
        /\ TruthySearch(q.search) =>
              \A t \in Range(q.search[1]) : t = books[id].title \/ t = books[id].description}

Least(a, b) == IF a < b THEN a ELSE b

(* C11: listBooks returns only books that satisfy every supplied filter, each *)
(* once, in ascending title order, and the page is what offset and limit cut  *)
(* from that order: as many books as remain after offset, at most limit, with *)
(* the books left out before the page titled no later and those after it no   *)
(* earlier than the page.                                                     *)
C11_ListFilters ==
    \A p \in Clients : (req[p].op = "list_books" /\ pc[p] \in {"lb_log", "done"}) =>
        LET q == req[p].q
            B == resp[p].body
            W == Wanted(q)
            rest == W \ {B[k].id : k \in DOMAIN B}
            after == IF Cardinality(W) > q.offset THEN Cardinality(W) - q.offset ELSE 0 IN
        /\ resp[p].status = 200
        /\ \A k \in DOMAIN B : B[k].id \in W /\ B[k].title = books[B[k].id].title
        /\ \A j, k \in DOMAIN B : j < k => (B[j].id # B[k].id /\ B[j].title <= B[k].title)
        /\ Len(B) = Least(q.limit, after)
        /\ Len(B) > 0 =>
              /\ Cardinality({m \in rest : books[m].title < B[1].title}) <= q.offset
              /\ Cardinality({m \in rest : books[m].title <= B[1].title}) >= q.offset
              /\ \A m \in rest : books[m].title <= B[1].title \/ books[m].title >= B[Len(B)].title

\* C11 witness: a list with a category filter returned a page while a book
\* without categories is in the store.
C11_Witness ==
    \E p \in Clients :
        /\ req[p].op = "list_books" /\ pc[p] = "done"
        /\ req[p].q.category_id # None
        /\ Len(resp[p].body) > 0
        /\ \E id \in DOMAIN books : RowsOf(bc, id) = {}

(* C12 as stated: when two updateBook calls on one existing book, each with   *)
(* category_ids, have both completed, the book's association rows are exactly *)
(* those of one of the two lists, never a union or mixture.                   *)
C12_LastReplaceWins ==
    \A p, q \in Clients :
        (/\ p # q
         /\ req[p].op = "update_book" /\ req[q].op = "update_book"
         /\ req[p].book_id = req[q].book_id
         /\ pc[p] = "done" /\ pc[q] = "done"
         /\ resp[p].status = 200 /\ resp[q].status = 200
         /\ req[p].patch.category_ids # None /\ req[q].patch.category_ids # None)
        => LET id == req[p].book_id
               rows(cids) == {<<id, c>> : c \in Range(cids[1])} IN
           \/ RowsOf(bc, id) = rows(req[p].patch.category_ids)
           \/ RowsOf(bc, id) = rows(req[q].patch.category_ids)

(* C13 as stated: a createBook or updateBook call whose write has committed   *)
(* returns, from its re-read, a book (status 200) whose fields and categories *)
(* are those the call wrote, whatever other calls ran in between.             *)
C13_ReReadReturnsWritten ==
    [][\A p \in Clients :
          (/\ req[p].op \in {"create_book", "update_book"}
           /\ pc[p] \in {"gb_row", "gb_cats"} /\ pc'[p] = "done")
          => /\ resp'[p].status = 200
             /\ req[p].op = "create_book" =>
                   resp'[p].body[1] = BookOut(loc[p].id, BookRow(req[p].book),
                                              Range(req[p].book.category_ids))
             /\ req[p].op = "update_book" =>
                   /\ \A f \in SetPart(req[p].patch) : resp'[p].body[1][f] = req[p].patch[f][1]
                   /\ req[p].patch.category_ids # None =>
                         resp'[p].body[1].categories = Range(req[p].patch.category_ids[1])
      ]_vars

(* C14: no handler holds more than one pooled connection, the connections in  *)
(* use never exceed the pool's maximum, a handler that is not running a call   *)
(* (idle, or finished by a response of any status) holds none, and so none is  *)
(* in use once every call has finished.                                        *)
C14_PoolBounded ==
    /\ \A p \in Clients : held[p] \in {0, 1}
    /\ InUse <= max_size
    /\ \A p \in Clients : pc[p] \in {"idle", "done"} => held[p] = 0
    /\ (\A p \in Clients : pc[p] \in {"idle", "done"}) => InUse = 0

\* The pool is exhausted while a getBook call waits for a connection, after an
\* updateBook call failed inside its transaction and gave its connection back.
C14_Witness ==
    /\ InUse = max_size
    /\ \E p \in Clients : pc[p] = "gb_row" /\ held[p] = 0
    /\ \E p \in Clients :
          /\ req[p].op = "update_book" /\ pc[p] = "done"
          /\ resp[p].status = 500 /\ wr[p] > 0 /\ held[p] = 0

(* C15: a getBook call that finds the pool exhausted waits and is answered     *)
(* with the book, never with an error; and under fair scheduling every         *)
(* requested call, the createBook and updateBook transactions on the same book *)
(* included, gets its connection and is answered: from some point on no        *)
(* handler is inside a call.                                                   *)
C15_EveryCallCompletes ==
    /\ [](\A p \in Clients : req[p].op = "get_book" => resp[p].status \in {0, 200})
    /\ <>[](\A p \in Clients : pc[p] \in {"idle", "done"} /\ held[p] = 0)

\* Every handler has been answered, the getBook calls outnumbering the pool
\* with the book, after PostgreSQL broke a lock cycle between the createBook
\* and updateBook transactions.
C15_Witness ==
    /\ \A p \in Clients : pc[p] = "done"
    /\ Cardinality({p \in Clients : req[p].op = "get_book" /\ resp[p].status = 200}) > max_size
    /\ \E p \in Clients :
          /\ req[p].op \in {"create_book", "update_book"}
          /\ resp[p].status = 500 /\ wr[p] > 0

\* The step of p is the DELETE of its delete_book call.
Deletes(p) == req[p].op = "delete_book" /\ pc[p] = "del_exec" /\ pc'[p] = "done"

\* A delete_book step removes at most the books row of its id and leaves every
\* other row of books, and authors, categories and the log, as they were.
DeleteFrame(p) ==
    /\ DOMAIN books' = DOMAIN books \ {req[p].book_id}
    /\ \A k \in DOMAIN books' : books'[k] = books[k]
    /\ UNCHANGED <<authors, categories, logs, tx>>

(* C16, amended: deleteBook removes at most the books row with the given id    *)
(* and leaves every other books row, every other table and the association     *)
(* rows of every other book unchanged; the association rows of the deleted     *)
(* book stay, orphaned, on a schema without a cascading foreign key, and are   *)
(* removed with the book on a schema whose foreign key cascades.               *)
C16_DeleteFrameBySchema ==
    [][\A p \in Clients :
          Deletes(p) =>
             /\ DeleteFrame(p)
             /\ bc' = IF fkCascade /\ req[p].book_id \in DOMAIN books
                      THEN bc \ RowsOf(bc, req[p].book_id)
                      ELSE bc
      ]_vars

\* A delete_book call removed a book whose association rows are still stored.
C16_Witness ==
    \E p \in Clients :
        /\ req[p].op = "delete_book" /\ pc[p] = "done" /\ resp[p].status = 200
        /\ req[p].book_id \notin DOMAIN books
        /\ RowsOf(bc, req[p].book_id) # {}

(* C16 as stated: deleteBook removes at most the books row with the given id   *)
(* and leaves every book_categories row, those of the deleted book included,   *)
(* and every other table unchanged.                                            *)
C16_DeleteChangesBooksOnly ==
    [][\A p \in Clients : Deletes(p) => DeleteFrame(p) /\ bc' = bc]_vars

(* C17: the commit of an updateBook call that found its book sets, on that     *)
(* book's row, each core field the patch supplies to the supplied value and    *)
(* leaves its other fields, every other books row and the association rows of  *)
(* every other book as they were; no other step of the call changes a table.   *)
C17_UpdateFrame ==
    [][\A p \in Clients :
          (req[p].op = "update_book" /\ Acts(p)) =>
             IF pc[p] = "ub_commit"
             THEN LET id == req[p].book_id
                      patch == req[p].patch IN
                  pc'[p] = "gb_row" =>
                     /\ DOMAIN books' = DOMAIN books
                     /\ \A k \in DOMAIN books \ {id} : books'[k] = books[k]
                     /\ id \in DOMAIN books =>
                           \A f \in DOMAIN books[id] :
                              books'[id][f] = IF patch[f] # None THEN patch[f][1] ELSE books[id][f]
                     /\ \A k \in BookIds \ {id} : RowsOf(bc', k) = RowsOf(bc, k)
             ELSE UNCHANGED <<books, bc>>
      ]_vars

\* The categories associated with book id in the store.
Associated(id) == {c \in CategoryIds : <<id, c>> \in bc}

(* C18: in a store no request changes, every book of a listBooks result        *)
(* carries all the categories associated with it, none when it has no          *)
(* association rows, which is what a getBook of that book returns; and a       *)
(* listBooks call that selected no book answers the empty sequence without     *)
(* having issued the batched category query.                                   *)
C18_ListCategoriesAsGetBook ==
    \A p \in Clients :
        (req[p].op = "list_books" /\ pc[p] \in {"lb_log", "done"}) =>
           LET B == resp[p].body IN
           /\ \A k \in DOMAIN B : B[k].categories = Associated(B[k].id)
           /\ \A k \in DOMAIN B : \A g \in Clients :
                 (/\ req[g].op = "get_book" /\ pc[g] = "done" /\ resp[g].status = 200
                  /\ resp[g].body[1].id = B[k].id)
                 => resp[g].body[1].categories = B[k].categories
           /\ (B = <<>>) = (loc[p].cats = None)
           /\ loc[p].rows = <<>> => B = <<>>

\* A listBooks call filtered by category 1 returned a book that is in both
\* categories, and a getBook of that book has been answered.
C18_Witness ==
    \E p, g \in Clients :
        /\ req[p].op = "list_books" /\ pc[p] = "done" /\ req[p].q.category_id = Some(1)
        /\ req[g].op = "get_book" /\ pc[g] = "done" /\ resp[g].status = 200
        /\ \E k \in DOMAIN resp[p].body :
              /\ resp[p].body[k].id = resp[g].body[1].id
              /\ resp[p].body[k].categories = {1, 2}

(* C19 as stated: a getBook answered while one updateBook call changes the     *)
(* title and the categories of the same book returns the title and categories  *)
(* the book had before that update, or those the update wrote, never the title *)
(* of one with the categories of the other.                                    *)
C19_GetBookSnapshot ==
    \A g, u \in Clients :
        (/\ req[g].op = "get_book" /\ pc[g] = "done" /\ resp[g].status = 200
         /\ req[u].op = "update_book"
         /\ req[u].patch.title # None /\ req[u].patch.category_ids # None)
        => LET got == <<resp[g].body[1].title, resp[g].body[1].categories>> IN
           \/ got = <<OneBook[1].title, {1}>>
           \/ got = <<req[u].patch.title[1], Range(req[u].patch.category_ids[1])>>

====
